---- MODULE Spec2Model ----
(***************************************************************************)
(* Monochrome-AI: the Interaction Controller (src/App.tsx) and the Image   *)
(* Request Service (src/services/geminiService.ts) as a state machine.     *)
(*                                                                         *)
(* A JavaScript string is a sequence of one-character strings.  A value of *)
(* type string | null is Null (the empty tuple) or Some(s), the one-tuple  *)
(* holding the string s.  The two non-ASCII letters of the style suffix    *)
(* are written "s-cedilla" and "c-cedilla".                                *)
(***************************************************************************)
EXTENDS Integers, Sequences, FiniteSets, TLC

VARIABLES prompt, generatedImage, isLoading, error, requests, calls, last,
          env, ai, startupError

\* The state of the service module: the environment it reads, its client
\* and the error its evaluation threw.
moduleVars == <<env, ai, startupError>>

vars ==
    <<prompt, generatedImage, isLoading, error, requests, calls, last, env, ai,
      startupError>>

(***************************************************************************)
(* Bounds of the model.                                                    *)
(***************************************************************************)
\* Longest prompt that is typed character by character.
MaxTyped == 3
\* Length of the long prompts that are pasted (longer than the file name cut).
LongLen == 52
\* Longest list of content parts in a provider response.
MaxParts == 2
\* Number of provider calls after which no further Submit is explored.
MaxCalls == 2

(***************************************************************************)
(* String literals of the source.                                          *)
(***************************************************************************)
ValidationMessage ==
    <<"P", "l", "e", "a", "s", "e", " ", "e", "n", "t", "e", "r", " ", "a",
      " ", "p", "r", "o", "m", "p", "t", ".">>

ControllerFallbackMessage ==
    <<"A", "n", " ", "u", "n", "k", "n", "o", "w", "n", " ", "e", "r", "r",
      "o", "r", " ", "o", "c", "c", "u", "r", "r", "e", "d", ".">>

DataUriPrefix ==
    <<"d", "a", "t", "a", ":", "i", "m", "a", "g", "e", "/", "p", "n", "g",
      ";", "b", "a", "s", "e", "6", "4", ",">>

DefaultFilename ==
    <<"g", "e", "n", "e", "r", "a", "t", "e", "d", "_", "i", "m", "a", "g",
      "e">>

PngExtension ==
    <<".", "p", "n", "g">>

StyleSuffix ==
    <<",", " ", "p", "r", "o", "m", "p", "t", "u", " ", "s", "a", "d", "e",
      "c", "e", " ", "a", "r", "k", "a", "p", "l", "a", "n", " ", "s", "i",
      "y", "a", "h", " ", "o", "l", "a", "c", "a", "k", " ", "s-cedilla", "e", "k",
      "i", "l", "d", "e", " ", "s", "a", "d", "e", "c", "e", " ", "b", "e",
      "y", "a", "z", " ", "r", "e", "n", "k", " ", "k", "u", "l", "l", "a",
      "n", "a", "r", "a", "k", " ", "c-cedilla", "i", "z", "e", "c", "e", "k">>

ConfigurationMessage ==
    <<"A", "P", "I", "_", "K", "E", "Y", " ", "e", "n", "v", "i", "r", "o",
      "n", "m", "e", "n", "t", " ", "v", "a", "r", "i", "a", "b", "l", "e",
      " ", "i", "s", " ", "n", "o", "t", " ", "s", "e", "t", ".">>

NoImageMessage ==
    <<"N", "o", " ", "i", "m", "a", "g", "e", " ", "d", "a", "t", "a", " ",
      "f", "o", "u", "n", "d", " ", "i", "n", " ", "t", "h", "e", " ", "A",
      "P", "I", " ", "r", "e", "s", "p", "o", "n", "s", "e", ".">>

WrapPrefix ==
    <<"F", "a", "i", "l", "e", "d", " ", "t", "o", " ", "g", "e", "n", "e",
      "r", "a", "t", "e", " ", "i", "m", "a", "g", "e", ":", " ">>

ServiceUnknownMessage ==
    <<"A", "n", " ", "u", "n", "k", "n", "o", "w", "n", " ", "e", "r", "r",
      "o", "r", " ", "o", "c", "c", "u", "r", "r", "e", "d", " ", "w", "h",
      "i", "l", "e", " ", "g", "e", "n", "e", "r", "a", "t", "i", "n", "g",
      " ", "t", "h", "e", " ", "i", "m", "a", "g", "e", ".">>

\* The cut of the file name, substring(0, 50).
FilenameCut == 50

(***************************************************************************)
(* Nullable values and JavaScript truthiness.                              *)
(***************************************************************************)
Null == <<>>

Some(s) == <<s>>

\* A string | null value is truthy when it is a non-empty string.
Truthy(v) == v # Null /\ v[1] # <<>>

(***************************************************************************)
(* Character classes and the string functions the handlers call.           *)
(***************************************************************************)
LowerAZ ==
    <<"a", "b", "c", "d", "e", "f", "g", "h", "i", "j", "k", "l", "m", "n",
      "o", "p", "q", "r", "s", "t", "u", "v", "w", "x", "y", "z">>

UpperAZ ==
    <<"A", "B", "C", "D", "E", "F", "G", "H", "I", "J", "K", "L", "M", "N",
      "O", "P", "Q", "R", "S", "T", "U", "V", "W", "X", "Y", "Z">>

Digits09 ==
    <<"0", "1", "2", "3", "4", "5", "6", "7", "8", "9">>

Range(f) == {f[i] : i \in DOMAIN f}

\* White space removed by String.prototype.trim (the part in the alphabet).
WhiteSpace == {" ", "\t", "\n"}

\* The character class [a-z0-9_] of the file-name pattern.
InClass(c) == c \in Range(LowerAZ) \cup Range(Digits09) \cup {"_"}

ToLowerChar(c) ==
    IF c \in Range(UpperAZ)
    THEN LowerAZ[CHOOSE i \in DOMAIN UpperAZ : UpperAZ[i] = c]
    ELSE c

\* String.prototype.toLowerCase.
ToLowerCase(s) == [i \in DOMAIN s |-> ToLowerChar(s[i])]

RECURSIVE TrimStart(_)
TrimStart(s) ==
    IF s # <<>> /\ Head(s) \in WhiteSpace THEN TrimStart(Tail(s)) ELSE s

RECURSIVE TrimEnd(_)
TrimEnd(s) ==
    IF s # <<>> /\ s[Len(s)] \in WhiteSpace
    THEN TrimEnd(SubSeq(s, 1, Len(s) - 1))
    ELSE s

\* String.prototype.trim.
Trim(s) == TrimEnd(TrimStart(s))

\* The end (exclusive) of the run of characters outside the class that
\* starts at position i.
RECURSIVE RunEnd(_, _)
RunEnd(s, i) ==
    IF i <= Len(s) /\ ~InClass(s[i]) THEN RunEnd(s, i + 1) ELSE i

\* replace(/[^a-z0-9_]+/g, '_'): scanning from position i, each match of
\* the pattern (a maximal run, the + being greedy) is replaced by "_".
RECURSIVE ReplaceFrom(_, _)
ReplaceFrom(s, i) ==
    IF i > Len(s) THEN <<>>
    ELSE IF InClass(s[i]) THEN <<s[i]>> \o ReplaceFrom(s, i + 1)
    ELSE <<"_">> \o ReplaceFrom(s, RunEnd(s, i))

\* Fault: the pattern without its +, every character replaced on its own.
ReplaceEachChar(s) == [i \in DOMAIN s |-> IF InClass(s[i]) THEN s[i] ELSE "_"]

ReplaceRuns(s) == ReplaceFrom(s, 1)

Min(a, b) == IF a < b THEN a ELSE b

\* String.prototype.substring(0, n).
Substring0(s, n) == SubSeq(s, 1, Min(n, Len(s)))

\* prompt.trim().toLowerCase().replace(...).substring(0, 50)
Sanitize(p) == Substring0(ReplaceRuns(ToLowerCase(Trim(p))), FilenameCut)

\* Fault: no fallback name.
FilenameWithoutFallback(p) == Sanitize(p)

\* ... || 'generated_image': the fallback is taken when the string is empty.
Filename(p) == IF Sanitize(p) # <<>> THEN Sanitize(p) ELSE DefaultFilename

\* `${filename}.png`
DownloadName(p) == Filename(p) \o PngExtension

\* Fault: the payload is stored without the data-URI prefix.
DataUriBare(payload) == payload

\* `data:image/png;base64,${newImageBase64}`
DataUri(payload) == DataUriPrefix \o payload

\* Fault: the style suffix is appended twice.
FullPromptTwice(p) == (p \o StyleSuffix) \o StyleSuffix

\* `${prompt}, promptu sadece ...`
FullPrompt(p) == p \o StyleSuffix

(***************************************************************************)
(* The inputs: what the user types or pastes, what the provider answers.   *)
(***************************************************************************)
\* Characters typed one at a time: a lower-case and an upper-case letter,
\* the underscore, white space and a symbol outside the class.
TypedChars == {"a", "B", "_", " ", "#"}

RedFoxPrompt ==
    <<"A", " ", "R", "e", "d", " ", "F", "o", "x", "!", "!", " ", "2", "0",
      "2", "4">>

SymbolsPrompt == <<"#", "#", "#">>

LongPatterns == {<<"a">>, <<"X", "#">>, <<"a", "#", " ">>}

LongPrompt(pat) == [i \in 1..LongLen |-> pat[((i - 1) % Len(pat)) + 1]]

PastedPrompts ==
    {RedFoxPrompt, SymbolsPrompt} \cup {LongPrompt(pat) : pat \in LongPatterns}

\* The values e.target.value can take after one edit of the textarea whose
\* value is p: a character typed at the end, the last character deleted, or
\* a whole prompt pasted over the selection.
EditedValues(p) ==
    {Append(p, c) : c \in {d \in TypedChars : Len(p) < MaxTyped}}
        \cup {SubSeq(p, 1, Len(p) - 1) : n \in {m \in {Len(p)} : m > 0}}
        \cup PastedPrompts

Payloads == {<<"a", "b", "c">>, <<"x", "y">>}

\* A content part: its optional fields text and inlineData.
TextPart(t) == [text |-> Some(t), inlineData |-> Null]

InlinePart(d) == [text |-> Null, inlineData |-> Some([data |-> d])]

Parts == {TextPart(<<"x">>)} \cup {InlinePart(d) : d \in Payloads}

PartLists == UNION {[1..n -> Parts] : n \in 0..MaxParts}

\* A response: no candidate at all, or one candidate with its parts.
Responses ==
    {[candidates |-> <<>>]}
        \cup {[candidates |-> <<[content |-> [parts |-> ps]]>>] : ps \in PartLists}

\* A thrown value: an Error object with its message, or a value that is
\* no Error (a thrown string, say).
ErrorObject(m) == [isError |-> TRUE, message |-> m]

NonError == [isError |-> FALSE, message |-> <<>>]

ProviderMessages == {<<"q", "u", "o", "t", "a">>, NoImageMessage}

ProviderFailures == {ErrorObject(m) : m \in ProviderMessages} \cup {NonError}

(***************************************************************************)
(* Promises.                                                               *)
(***************************************************************************)
Pending == [status |-> "pending"]

Fulfilled(v) == [status |-> "fulfilled", value |-> v]

Rejected(e) == [status |-> "rejected", reason |-> e]

(***************************************************************************)
(* generateMonochromeImage, after the provider call has settled.           *)
(***************************************************************************)
\* response.candidates?.[0]?.content?.parts || []
PartsOf(response) ==
    IF response.candidates = <<>>
    THEN <<>>
    ELSE response.candidates[1].content.parts

\* The for loop: the data of the first part from position i on that has
\* inlineData, Null when the loop ends without returning.
RECURSIVE ScanParts(_, _)
ScanParts(parts, i) ==
    IF i > Len(parts) THEN Null
    ELSE IF parts[i].inlineData # Null THEN Some(parts[i].inlineData[1].data)
    ELSE ScanParts(parts, i + 1)

\* Fault: the loop keeps the last part that has inlineData.
RECURSIVE ScanPartsBackwards(_, _)
ScanPartsBackwards(parts, i) ==
    IF i < 1 THEN Null
    ELSE IF parts[i].inlineData # Null THEN Some(parts[i].inlineData[1].data)
    ELSE ScanPartsBackwards(parts, i - 1)

LastInlineData(parts) == ScanPartsBackwards(parts, Len(parts))

FirstInlineData(parts) == ScanParts(parts, 1)

\* The try block: what it returns or throws once the provider has settled.
TryBlock(provider) ==
    IF provider.status = "rejected" THEN Rejected(provider.reason)
    ELSE IF FirstInlineData(PartsOf(provider.value)) # Null
    THEN Fulfilled(FirstInlineData(PartsOf(provider.value))[1])
    ELSE Rejected(ErrorObject(NoImageMessage))

\* Fault: the catch block throws the caught value again as it is.
CatchBlockRethrow(e) == e

\* The catch block: every value thrown in the try block is thrown again as
\* a new Error.
CatchBlock(e) ==
    IF e.isError
    THEN ErrorObject(WrapPrefix \o e.message)
    ELSE ErrorObject(ServiceUnknownMessage)

\* The promise generateMonochromeImage returns.
ServiceOutcome(provider) ==
    IF TryBlock(provider).status = "rejected"
    THEN Rejected(CatchBlock(TryBlock(provider).reason))
    ELSE TryBlock(provider)

(***************************************************************************)
(* The controller.                                                         *)
(***************************************************************************)
\* Fault: the button is disabled while loading only, not on an empty prompt.
isGenerateDisabledIgnoringPrompt == isLoading

\* Fault: the button is disabled on an empty prompt only, not while loading.
isGenerateDisabledIgnoringLoading == Trim(prompt) = <<>>

\* const isGenerateDisabled = !prompt.trim() || isLoading
isGenerateDisabled == Trim(prompt) = <<>> \/ isLoading

\* Fault: the prompt is tested without being trimmed.
PromptMissingUntrimmed(p) == p = <<>>

\* if (!prompt.trim())
PromptMissing(p) == Trim(p) = <<>>

\* Fault: the message of the caught error is not used.
ErrorMessageGeneric(err) == ControllerFallbackMessage

\* err instanceof Error ? err.message : "An unknown error occurred."
ErrorMessageOf(err) ==
    IF err.isError THEN err.message ELSE ControllerFallbackMessage

\* Fault: an accepted Submit keeps the previous image.
ImageKeptOnSubmit == generatedImage

\* setGeneratedImage(null) of an accepted Submit.
ImageOnSubmit == Null

\* Fault: setIsLoading(false) at the end of the try block, not in finally.
LoadingAfterTryOnly(service) == service.status = "rejected"

\* finally { setIsLoading(false) }: the flag after the request completed
\* with the given outcome.
LoadingAfter(service) == FALSE

\* The promise handleSubmit returns: the catch block throws nothing.
HandlerOutcome(service) == Fulfilled(Null)

\* The invocation of handleSubmit that awaits the service.
NewRequest(p) ==
    [prompt |-> p, fullPrompt |-> FullPrompt(p), provider |-> Pending,
     service |-> Pending]

\* No continuation is due: every request in flight awaits the provider.
Quiescent == \A i \in DOMAIN requests : requests[i].provider.status = "pending"

Remove(seq, i) == SubSeq(seq, 1, i - 1) \o SubSeq(seq, i + 1, Len(seq))

\* process.env.API_KEY: not set, set to the empty string, or set.
ApiKeys == {Null, Some(<<>>), Some(<<"k", "e", "y">>)}

Init ==
    /\ prompt = <<>>
    /\ generatedImage = Null
    /\ isLoading = FALSE
    /\ error = Null
    /\ requests = <<>>
    /\ calls = 0
    /\ last = [ev |-> "init"]
    /\ env \in {[API_KEY |-> k] : k \in ApiKeys}
    /\ ai = Null
    /\ startupError = Null

\* Fault: the client is constructed without the credential being tested.
CredentialNeverMissing == FALSE

\* if (!process.env.API_KEY)
CredentialMissing == ~Truthy(env.API_KEY)

\* The evaluation of the service module when the application starts: it
\* throws, and nothing is rendered, or it constructs the client.
LoadModule ==
    /\ ai = Null
    /\ startupError = Null
    /\ IF CredentialMissing
       THEN /\ startupError' = Some(ErrorObject(ConfigurationMessage))
            /\ last' = [ev |-> "moduleFailed"]
            /\ UNCHANGED ai
       ELSE /\ ai' = Some([apiKey |-> env.API_KEY])
            /\ last' = [ev |-> "moduleLoaded"]
            /\ UNCHANGED startupError
    /\ UNCHANGED <<prompt, generatedImage, isLoading, error, requests, calls,
                   env>>

\* The module was evaluated and the application is rendered.
Ready == ai # Null

\* handleSubmit up to its await.
HandleSubmit ==
    IF PromptMissing(prompt)
    THEN /\ error' = Some(ValidationMessage)
         /\ last' = [ev |-> "submitRejected", before |-> error]
         /\ UNCHANGED <<prompt, generatedImage, isLoading, requests, calls,
                        moduleVars>>
    ELSE /\ calls < MaxCalls
         /\ isLoading' = TRUE
         /\ error' = Null
         /\ generatedImage' = ImageOnSubmit
         /\ requests' = Append(requests, NewRequest(prompt))
         /\ calls' = calls + 1
         /\ last' = [ev |-> "submitAccepted", cleared |-> generatedImage]
         /\ UNCHANGED <<prompt, moduleVars>>

\* Fault: no early return, a file is produced whether or not a result exists.
HandleDownloadUnguarded ==
    /\ last' = [ev |-> "download",
                file |-> [href |-> IF generatedImage = Null
                                   THEN <<>>
                                   ELSE generatedImage[1],
                          download |-> DownloadName(prompt)]]
    /\ UNCHANGED <<prompt, generatedImage, isLoading, error, requests, calls,
                   moduleVars>>

\* handleDownload.
HandleDownload ==
    /\ IF ~Truthy(generatedImage)
       THEN last' = [ev |-> "downloadNothing"]
       ELSE last' = [ev |-> "download",
                     file |-> [href |-> generatedImage[1],
                               download |-> DownloadName(prompt)]]
    /\ UNCHANGED <<prompt, generatedImage, isLoading, error, requests, calls,
                   moduleVars>>

\* Fault: the textarea is not disabled while loading.
TextareaChangeWhileLoading(v) ==
    /\ Ready
    /\ Quiescent
    /\ prompt' = v
    /\ last' = [ev |-> "setPrompt"]
    /\ UNCHANGED <<generatedImage, isLoading, error, requests, calls,
                   moduleVars>>

\* Fault: editing the prompt dismisses the error.
TextareaChangeClearing(v) ==
    /\ Ready
    /\ Quiescent
    /\ ~isLoading
    /\ prompt' = v
    /\ error' = Null
    /\ last' = [ev |-> "setPrompt"]
    /\ UNCHANGED <<generatedImage, isLoading, requests, calls, moduleVars>>

\* The textarea's onChange; the textarea is disabled while loading.
TextareaChange(v) ==
    /\ Ready
    /\ Quiescent
    /\ ~isLoading
    /\ prompt' = v
    /\ last' = [ev |-> "setPrompt"]
    /\ UNCHANGED <<generatedImage, isLoading, error, requests, calls,
                   moduleVars>>

\* A click on the Generate button: a disabled button fires no onClick.
ClickGenerate ==
    /\ Ready
    /\ Quiescent
    /\ IF isGenerateDisabled
       THEN /\ last' = [ev |-> "clickIgnored", loading |-> isLoading]
            /\ UNCHANGED <<prompt, generatedImage, isLoading, error, requests,
                           calls, moduleVars>>
       ELSE HandleSubmit

\* A click on the Download button, rendered when generatedImage && !isLoading.
ClickDownload ==
    /\ Ready
    /\ Quiescent
    /\ Truthy(generatedImage)
    /\ ~isLoading
    /\ HandleDownload

\* The provider call of request i resolves with a response.
ProviderResolve(i, response) ==
    /\ Quiescent
    /\ requests' = [requests EXCEPT ![i].provider = Fulfilled(response)]
    /\ last' = [ev |-> "providerSettled"]
    /\ UNCHANGED <<prompt, generatedImage, isLoading, error, calls, moduleVars>>

\* The provider call of request i fails.
ProviderReject(i, e) ==
    /\ Quiescent
    /\ requests' = [requests EXCEPT ![i].provider = Rejected(e)]
    /\ last' = [ev |-> "providerSettled"]
    /\ UNCHANGED <<prompt, generatedImage, isLoading, error, calls, moduleVars>>

\* generateMonochromeImage resumes after its await and settles.
ServiceResume(i) ==
    /\ requests[i].provider.status # "pending"
    /\ requests[i].service.status = "pending"
    /\ requests' =
          [requests EXCEPT ![i].service = ServiceOutcome(requests[i].provider)]
    /\ last' = [ev |-> "serviceSettled"]
    /\ UNCHANGED <<prompt, generatedImage, isLoading, error, calls, moduleVars>>

\* Fault: a failed request is issued again instead of being reported.
HandleSubmitResumeRetry(i) ==
    /\ requests[i].service.status # "pending"
    /\ IF requests[i].service.status = "rejected" /\ calls < MaxCalls
       THEN /\ requests' = [requests EXCEPT ![i] = NewRequest(requests[i].prompt)]
            /\ calls' = calls + 1
            /\ last' = [ev |-> "retried"]
            /\ UNCHANGED <<prompt, generatedImage, isLoading, error,
                           moduleVars>>
       ELSE /\ IF requests[i].service.status = "fulfilled"
               THEN /\ generatedImage' = Some(DataUri(requests[i].service.value))
                    /\ UNCHANGED error
               ELSE /\ error' = Some(ErrorMessageOf(requests[i].service.reason))
                    /\ UNCHANGED generatedImage
            /\ isLoading' = FALSE
            /\ requests' = Remove(requests, i)
            /\ last' = [ev |-> "completed", request |-> requests[i],
                        handler |-> Fulfilled(Null)]
            /\ UNCHANGED <<prompt, calls, moduleVars>>

\* handleSubmit resumes after its await: try, catch and finally.
HandleSubmitResume(i) ==
    /\ requests[i].service.status # "pending"
    /\ IF requests[i].service.status = "fulfilled"
       THEN /\ generatedImage' = Some(DataUri(requests[i].service.value))
            /\ UNCHANGED error
       ELSE /\ error' = Some(ErrorMessageOf(requests[i].service.reason))
            /\ UNCHANGED generatedImage
    /\ isLoading' = LoadingAfter(requests[i].service)
    /\ requests' = Remove(requests, i)
    /\ last' = [ev |-> "completed", request |-> requests[i],
                handler |-> HandlerOutcome(requests[i].service)]
    /\ UNCHANGED <<prompt, calls, moduleVars>>

\* The rendered application: every event passes through its control.
Next ==
    \/ LoadModule
    \/ \E v \in EditedValues(prompt) : TextareaChange(v)
    \/ ClickGenerate
    \/ ClickDownload
    \/ \E i \in DOMAIN requests : \E r \in Responses : ProviderResolve(i, r)
    \/ \E i \in DOMAIN requests : \E e \in ProviderFailures : ProviderReject(i, e)
    \/ \E i \in DOMAIN requests : ServiceResume(i)
    \/ \E i \in DOMAIN requests : HandleSubmitResume(i)

Spec == Init /\ [][Next]_vars

\* The event loop runs every continuation that is due (the microtasks of a
\* settled promise); nothing makes the provider answer.
FairSpec ==
    /\ Spec
    /\ WF_vars(\E i \in DOMAIN requests : ServiceResume(i))
    /\ WF_vars(\E i \in DOMAIN requests : HandleSubmitResume(i))

\* handleSubmit called from a state that is not loading, whatever the
\* button's disabled attribute.
InvokeHandleSubmit ==
    /\ Ready
    /\ Quiescent
    /\ ~isLoading
    /\ HandleSubmit

\* handleDownload called whether or not the Download button is rendered.
InvokeHandleDownload ==
    /\ Ready
    /\ Quiescent
    /\ HandleDownload

\* The handlers as operations, called without passing through the buttons.
NextHandlers ==
    \/ LoadModule
    \/ \E v \in EditedValues(prompt) : TextareaChange(v)
    \/ InvokeHandleSubmit
    \/ InvokeHandleDownload
    \/ \E i \in DOMAIN requests : \E r \in Responses : ProviderResolve(i, r)
    \/ \E i \in DOMAIN requests : \E e \in ProviderFailures : ProviderReject(i, e)
    \/ \E i \in DOMAIN requests : ServiceResume(i)
    \/ \E i \in DOMAIN requests : HandleSubmitResume(i)

SpecHandlers == Init /\ [][NextHandlers]_vars

(***************************************************************************)
(* Properties.                                                             *)
(***************************************************************************)
SubmitEvents == {"clickIgnored", "submitAccepted", "submitRejected"}

\* Every character of p is white space: p is empty after trimming.
AllWhite(p) == \A i \in DOMAIN p : p[i] \in WhiteSpace

\* C1: at most one request is in flight in every reachable state, and a
\* click on Generate that arrives while a request is loading is dropped: it
\* issues no provider call and leaves the request in flight as it is.
C1_SingleFlight ==
    /\ [](Len(requests) <= 1)
    /\ [][(isLoading /\ last'.ev \in SubmitEvents)
            => /\ last'.ev = "clickIgnored"
               /\ requests' = requests
               /\ calls' = calls]_vars

\* A second click was dropped while the one request of the first is loading.
C1_Witness ==
    /\ last.ev = "clickIgnored"
    /\ last.loading
    /\ isLoading
    /\ Len(requests) = 1
    /\ calls = 1

\* C2: handleSubmit called in a state that is not loading, with a prompt
\* that is empty after trimming, sets the error to the validation message,
\* issues no provider call and leaves the result and the loading flag alone.
C2_EmptyPromptRejected ==
    [][(~isLoading /\ AllWhite(prompt) /\ last'.ev \in SubmitEvents)
         => /\ last'.ev = "submitRejected"
            /\ error' = Some(ValidationMessage)
            /\ generatedImage' = generatedImage
            /\ isLoading' = isLoading
            /\ requests' = requests
            /\ calls' = calls]_vars

\* A white-space prompt was submitted in Succeeded: the image is kept.
C2_Witness ==
    /\ last.ev = "submitRejected"
    /\ prompt # <<>>
    /\ AllWhite(prompt)
    /\ Truthy(generatedImage)
    /\ error = Some(ValidationMessage)
    /\ ~isLoading
    /\ requests = <<>>

\* C3: while a request is loading the stored result and the error are both
\* absent; the image of an earlier success is cleared by the Submit itself.
C3_ClearThenLoad == isLoading => (generatedImage = Null /\ error = Null)

\* Loading right after a Submit that was accepted in Succeeded.
C3_Witness ==
    /\ isLoading
    /\ last.ev = "submitAccepted"
    /\ Truthy(last.cleared)
    /\ generatedImage = Null

\* The positions of the parts that carry inline image data.
InlineAt(parts) == {i \in DOMAIN parts : parts[i].inlineData # Null}

MinOf(S) == CHOOSE i \in S : \A j \in S : i <= j

MaxOf(S) == CHOOSE i \in S : \A j \in S : j <= i

\* C4: when the provider resolves and no part carries inline image data,
\* the controller ends in Failed with the error set to exactly the fixed
\* message of the NoImageData failure.
C4_NoImageDataMessage ==
    (/\ last.ev = "completed"
     /\ last.request.provider.status = "fulfilled"
     /\ InlineAt(PartsOf(last.request.provider.value)) = {})
        => /\ ~isLoading
           /\ generatedImage = Null
           /\ error = Some(NoImageMessage)

\* A character that is no letter, no digit and not the underscore.
NotWordChar(c) ==
    c \notin Range(LowerAZ) \cup Range(UpperAZ) \cup Range(Digits09) \cup {"_"}

SymbolsOnly(p) == \A i \in DOMAIN p : NotWordChar(p[i])

DefaultFile == DefaultFilename \o PngExtension

UnderscoreFile == <<"_", ".", "p", "n", "g">>

\* C5 as stated: a Download whose prompt holds, after trimming, only
\* characters other than letters, digits and underscore names the file
\* generated_image.png.
C5_SymbolsGiveDefault ==
    (last.ev = "download" /\ SymbolsOnly(prompt))
        => last.file.download = DefaultFile

\* C5 as amended: the default name is produced when the prompt is empty
\* after trimming; a prompt whose trimmed text is not empty and holds only
\* characters other than letters, digits and underscore is one run and
\* gives _.png.
C5_DefaultWhenEmpty ==
    last.ev = "download"
        => /\ AllWhite(prompt) => last.file.download = DefaultFile
           /\ (SymbolsOnly(prompt) /\ ~AllWhite(prompt))
                 => last.file.download = UnderscoreFile

\* The prompt "###" was downloaded.
C5_Witness ==
    /\ last.ev = "download"
    /\ prompt = SymbolsPrompt
    /\ last.file.download = UnderscoreFile
    /\ Truthy(generatedImage)

\* The sanitized name as the claim words it.  Trimmed: from the first to the
\* last character that is not white space.
Ink(p) == {i \in DOMAIN p : p[i] \notin WhiteSpace}

TrimmedText(p) ==
    IF Ink(p) = {} THEN <<>> ELSE SubSeq(p, MinOf(Ink(p)), MaxOf(Ink(p)))

\* The positions that survive the collapse: a character of the class, or
\* the first character of a maximal run outside it.
RunStarts(t) == {i \in DOMAIN t : InClass(t[i]) \/ i = 1 \/ InClass(t[i - 1])}

NthOf(S, k) == CHOOSE i \in S : Cardinality({j \in S : j < i}) = k - 1

Collapsed(t) ==
    [k \in 1..Cardinality(RunStarts(t)) |->
        IF InClass(t[NthOf(RunStarts(t), k)])
        THEN t[NthOf(RunStarts(t), k)]
        ELSE "_"]

FirstChars(t, n) == [k \in 1..(IF Len(t) < n THEN Len(t) ELSE n) |-> t[k]]

ExpectedName(p) ==
    FirstChars(Collapsed(ToLowerCase(TrimmedText(p))), 50) \o PngExtension

RedFoxFile ==
    <<"a", "_", "r", "e", "d", "_", "f", "o", "x", "_", "2", "0", "2", "4",
      ".", "p", "n", "g">>

\* C6 as stated: for every prompt a Download names the file by the prompt
\* trimmed, lowercased, each maximal run outside [a-z0-9_] made one
\* underscore, cut to 50 characters, plus ".png".
C6_EveryPromptSanitized ==
    last.ev = "download" => last.file.download = ExpectedName(prompt)

\* C6 as amended: the same, for every prompt that is not empty after
\* trimming.
C6_NonEmptyPromptSanitized ==
    (last.ev = "download" /\ ~AllWhite(prompt))
        => /\ last.file.download = ExpectedName(prompt)
           /\ last.file.href = generatedImage[1]

\* "A Red Fox!! 2024" was downloaded as a_red_fox_2024.png.
C6_Witness ==
    /\ last.ev = "download"
    /\ prompt = RedFoxPrompt
    /\ last.file.download = RedFoxFile

\* C7: when the response holds a part with inline image data, the service
\* returns the data of the first such part in list order.
C7_FirstImagePartWins ==
    \A i \in DOMAIN requests :
        (/\ requests[i].service.status # "pending"
         /\ requests[i].provider.status = "fulfilled"
         /\ InlineAt(PartsOf(requests[i].provider.value)) # {})
            => /\ requests[i].service.status = "fulfilled"
               /\ requests[i].service.value =
                     PartsOf(requests[i].provider.value)
                        [MinOf(InlineAt(PartsOf(requests[i].provider.value)))]
                            .inlineData[1].data

\* The service has returned "abc" for the parts [image "abc", image "xy"].
C7_Witness ==
    \E i \in DOMAIN requests :
        /\ requests[i].provider.status = "fulfilled"
        /\ PartsOf(requests[i].provider.value)
              = <<InlinePart(<<"a", "b", "c">>), InlinePart(<<"x", "y">>)>>
        /\ requests[i].service.status = "fulfilled"
        /\ requests[i].service.value = <<"a", "b", "c">>

\* A continuation is due: the provider call of some request has settled.
ProviderSettled ==
    \E i \in DOMAIN requests : requests[i].provider.status # "pending"

\* C8: once the provider call has completed, resolved or failed, the
\* controller reaches a state that is not loading and in which Submit is
\* enabled again for the prompt that was sent; no completion leaves the
\* loading flag set.
C8_CompletionEndsLoading ==
    /\ ProviderSettled
          ~> (/\ last.ev = "completed"
              /\ ~isLoading
              /\ requests = <<>>
              /\ ~isGenerateDisabled)
    /\ [](last.ev = "completed" => (~isLoading /\ ~isGenerateDisabled))

\* A failed request has completed and Submit is enabled again.
C8_Witness ==
    /\ last.ev = "completed"
    /\ last.request.service.status = "rejected"
    /\ ~isLoading
    /\ ~isGenerateDisabled
    /\ Truthy(error)

IsSuffix(m, t) ==
    Len(m) <= Len(t) /\ SubSeq(t, Len(t) - Len(m) + 1, Len(t)) = m

\* C9: when the service call fails, handleSubmit catches the failure (its
\* own promise is fulfilled) and the controller ends in Failed: not loading,
\* no result, the error being the message of the failure, which ends with
\* the message of the provider's Error when the provider threw one.
C9_FailureCaught ==
    (last.ev = "completed" /\ last.request.service.status = "rejected")
        => /\ last.handler.status = "fulfilled"
           /\ ~isLoading
           /\ requests = <<>>
           /\ generatedImage = Null
           /\ error = Some(last.request.service.reason.message)
           /\ Truthy(error)
           /\ (/\ last.request.provider.status = "rejected"
               /\ last.request.provider.reason.isError)
                 => IsSuffix(last.request.provider.reason.message, error[1])

\* The provider failed with Error("quota") and the controller shows it.
C9_Witness ==
    /\ last.ev = "completed"
    /\ last.request.provider = Rejected(ErrorObject(<<"q", "u", "o", "t", "a">>))
    /\ error = Some(WrapPrefix \o <<"q", "u", "o", "t", "a">>)
    /\ generatedImage = Null
    /\ ~isLoading

\* C10: when the service resolves with payload p the controller ends in
\* Succeeded: not loading, no error, the result being the data-URI prefix
\* followed by p, so that cutting the prefix off gives p back.
C10_SuccessStoresDataUri ==
    (last.ev = "completed" /\ last.request.service.status = "fulfilled")
        => /\ ~isLoading
           /\ requests = <<>>
           /\ error = Null
           /\ generatedImage # Null
           /\ Len(generatedImage[1])
                 = Len(DataUriPrefix) + Len(last.request.service.value)
           /\ SubSeq(generatedImage[1], 1, Len(DataUriPrefix)) = DataUriPrefix
           /\ SubSeq(generatedImage[1], Len(DataUriPrefix) + 1,
                     Len(generatedImage[1])) = last.request.service.value

\* The payload "abc" is stored as data:image/png;base64,abc.
C10_Witness ==
    /\ last.ev = "completed"
    /\ last.request.service = Fulfilled(<<"a", "b", "c">>)
    /\ generatedImage =
          Some(<<"d", "a", "t", "a", ":", "i", "m", "a", "g", "e", "/", "p",
                 "n", "g", ";", "b", "a", "s", "e", "6", "4", ",", "a", "b",
                 "c">>)
    /\ error = Null
    /\ ~isLoading


\* The provider calls that are outstanding.
PendingCalls ==
    Cardinality({i \in DOMAIN requests : requests[i].provider.status = "pending"})

\* C11: every accepted Submit issues exactly one provider call, and no other
\* step (a prompt edit, a dropped click, a Download, the settling or the
\* completion of a request, failed or not) issues any: the number of calls
\* grows by one with each accepted Submit and never otherwise.
C11_OneCallPerAcceptedSubmit ==
    [][IF last'.ev = "submitAccepted"
       THEN calls' = calls + 1 /\ PendingCalls' = PendingCalls + 1
       ELSE calls' = calls /\ PendingCalls' <= PendingCalls]_vars

\* A request has failed and completed: one call was made, none is pending.
C11_Witness ==
    /\ last.ev = "completed"
    /\ last.request.service.status = "rejected"
    /\ calls = 1
    /\ requests = <<>>


DownloadEvents == {"download", "downloadNothing"}

\* C12: handleDownload changes no controller state and issues no provider
\* call; it produces a file, whose content is the stored result, exactly
\* when a result is stored, and nothing otherwise.
C12_DownloadChangesNothing ==
    [][last'.ev \in DownloadEvents
         => /\ UNCHANGED <<prompt, generatedImage, isLoading, error, requests,
                           calls>>
            /\ (last'.ev = "download") = Truthy(generatedImage)
            /\ last'.ev = "download" => last'.file.href = generatedImage[1]]_vars

\* handleDownload was called in Failed, where no result is stored.
C12_Witness ==
    /\ last.ev = "downloadNothing"
    /\ generatedImage = Null
    /\ Truthy(error)
    /\ ~isLoading


\* The events that are no submission and no completion of one.
ErrorKeepingEvents ==
    {"setPrompt", "download", "downloadNothing", "clickIgnored",
     "providerSettled", "serviceSettled"}

\* C13: the controller holds at most one error message; an accepted Submit
\* clears it, so no request is in flight with an error held; a rejected
\* Submit and a failed request replace whatever was held by their own
\* message; prompt edits, Downloads and every other step leave it as it is.
C13_ErrorPersistsUntilSubmit ==
    /\ [](Len(error) <= 1 /\ (requests # <<>> => error = Null))
    /\ [][/\ last'.ev \in ErrorKeepingEvents => error' = error
          /\ last'.ev = "submitAccepted" => error' = Null
          /\ last'.ev = "submitRejected" => error' = Some(ValidationMessage)
          /\ last'.ev = "completed"
                => IF last'.request.service.status = "rejected"
                   THEN error' = Some(last'.request.service.reason.message)
                   ELSE error' = error]_vars

\* The error of a failed request was kept while the prompt was emptied and
\* was then replaced by the validation message.
C13_Witness ==
    /\ last.ev = "submitRejected"
    /\ last.before # Null
    /\ last.before # Some(ValidationMessage)
    /\ error = Some(ValidationMessage)


\* C14: with the API credential absent (not set, or empty) the evaluation
\* of the service module throws the configuration error and constructs no
\* client, and no provider call is ever issued; the outcome of that one
\* evaluation is never changed by a later step, a request included.
C14_CredentialCheckedAtStartup ==
    /\ [](startupError # Null
            => /\ startupError = Some(ErrorObject(ConfigurationMessage))
               /\ ai = Null
               /\ calls = 0
               /\ requests = <<>>)
    /\ [](~Truthy(env.API_KEY) => (ai = Null /\ calls = 0 /\ requests = <<>>))
    /\ [](last.ev # "init" => (ai = Null) = ~Truthy(env.API_KEY))
    /\ [][last.ev # "init" => UNCHANGED moduleVars]_vars

\* The credential is the empty string and the module has thrown.
C14_Witness ==
    /\ env.API_KEY = Some(<<>>)
    /\ startupError # Null
    /\ ai = Null
    /\ last.ev = "moduleFailed"


\* C15: the text of every request dispatched to the provider is the prompt
\* the controller passed, followed by the style suffix and nothing more, and
\* the controller's prompt is still the prompt that was passed.
C15_SuffixAppendedOnce ==
    \A i \in DOMAIN requests :
        /\ ~AllWhite(requests[i].prompt)
        /\ requests[i].prompt = prompt
        /\ Len(requests[i].fullPrompt)
              = Len(requests[i].prompt) + Len(StyleSuffix)
        /\ SubSeq(requests[i].fullPrompt, 1, Len(requests[i].prompt))
              = requests[i].prompt
        /\ SubSeq(requests[i].fullPrompt, Len(requests[i].prompt) + 1,
                  Len(requests[i].fullPrompt)) = StyleSuffix

\* The prompt "a" is in flight as "a, promptu ... cizecek".
C15_Witness ==
    /\ Len(requests) = 1
    /\ requests[1].prompt = <<"a">>
    /\ requests[1].fullPrompt = <<"a">> \o StyleSuffix
    /\ requests[1].provider.status = "pending"
    /\ prompt = <<"a">>


\* C16: the loading flag is set exactly when a request is outstanding (its
\* handleSubmit has not completed), so no completion clears the flag while
\* another request is in flight.
C16_LoadingIffOutstanding == isLoading = (requests # <<>>)

\* The second request is outstanding after the first one has completed.
C16_Witness ==
    /\ isLoading
    /\ Len(requests) = 1
    /\ calls = 2
    /\ requests[1].provider.status = "pending"


\* C17: in the rendered application, where handleSubmit runs only on a click
\* of the enabled button, the validation message is never the error, and a
\* stored result and an error are never held together.
C17_NoValidationErrorThroughButton ==
    /\ error # Some(ValidationMessage)
    /\ ~(Truthy(generatedImage) /\ Truthy(error))

\* In Succeeded the prompt was emptied and the click on the disabled button
\* was dropped: the result is kept and no error is set.
C17_Witness ==
    /\ last.ev = "clickIgnored"
    /\ ~last.loading
    /\ AllWhite(prompt)
    /\ Truthy(generatedImage)
    /\ error = Null


\* C18: the prompt does not change while a request is loading, so the
\* prompt of every request in flight, and of the request that has just
\* completed, is the controller's prompt; what was sent is that prompt as
\* typed, white space at its ends included, and it is not empty after
\* trimming.
C18_PromptFrozenWhileLoading ==
    /\ [](\A i \in DOMAIN requests :
             /\ requests[i].prompt = prompt
             /\ ~AllWhite(requests[i].prompt)
             /\ SubSeq(requests[i].fullPrompt, 1, Len(prompt)) = prompt)
    /\ [](last.ev = "completed" => last.request.prompt = prompt)
    /\ [][isLoading => prompt' = prompt]_vars

\* The request for the prompt " a " has completed; " a " is what was sent.
C18_Witness ==
    /\ last.ev = "completed"
    /\ prompt = <<" ", "a", " ">>
    /\ last.request.prompt = <<" ", "a", " ">>
    /\ last.request.fullPrompt = <<" ", "a", " ">> \o StyleSuffix


\* What the try block of the service threw for a settled provider call: the
\* value the provider rejected with, or the Error of the missing image.
Underlying(provider) ==
    IF provider.status = "rejected"
    THEN provider.reason
    ELSE ErrorObject(NoImageMessage)

\* C19: every failure of the service is an Error whose message is "Failed to
\* generate image: " followed by the message of the Error underneath, or the
\* service's fixed text when the value underneath is no Error; the
\* controller's own fallback message is the error in no reachable state.
C19_FallbackNeverStored ==
    /\ error # Some(ControllerFallbackMessage)
    /\ \A i \in DOMAIN requests :
          requests[i].service.status = "rejected"
             => /\ requests[i].service.reason.isError
                /\ requests[i].service.reason.message
                      = IF Underlying(requests[i].provider).isError
                        THEN WrapPrefix
                                \o Underlying(requests[i].provider).message
                        ELSE ServiceUnknownMessage

\* The provider threw a value that is no Error: the service's fixed text is
\* shown, not the controller's.
C19_Witness ==
    /\ last.ev = "completed"
    /\ last.request.provider = Rejected(NonError)
    /\ error = Some(ServiceUnknownMessage)

====
